---------------------------- MODULE Spec2Model ----------------------------
(***************************************************************************)
(* Model of src/app.py: the document classification service.               *)
(*                                                                         *)
(* A text is a sequence of one-character strings.  A confidence is kept    *)
(* in units of 1/10000 (0.55 is 5500), so that rounding to two decimal     *)
(* places is an operation on the value and not the identity.               *)
(***************************************************************************)
EXTENDS Integers, Sequences, FiniteSets

(***************************************************************************)
(* Bounds of the model.                                                    *)
(***************************************************************************)
\* longest list of token confidences image_to_data reports
MaxTokens == 2
\* most repetitions of the leading word of a classifier text
MaxRep == 7

(***************************************************************************)
(* Python values and string methods.                                       *)
(***************************************************************************)
\* None in the "not_image" report (app.py:217); every real value is >= 0
None == -1

Min(a, b) == IF a <= b THEN a ELSE b

Uppers == <<"A","B","C","D","E","F","G","H","I","J","K","L","M","N","O","P","Q","R","S","T","U","V","W","X","Y","Z">>
Lowers == <<"a","b","c","d","e","f","g","h","i","j","k","l","m","n","o","p","q","r","s","t","u","v","w","x","y","z">>
Digits == <<"0","1","2","3","4","5","6","7","8","9">>

Range(s) == {s[i] : i \in 1..Len(s)}

\* str.lower() of one character
LowerChar(c) ==
    IF c \in Range(Uppers)
    THEN Lowers[CHOOSE i \in 1..Len(Uppers) : Uppers[i] = c]
    ELSE c

\* str.lower()
Lower(text) == [i \in 1..Len(text) |-> LowerChar(text[i])]

\* str.isalnum() of one character
IsAlnum(c) == c \in Range(Uppers) \cup Range(Lowers) \cup Range(Digits)

\* the characters str.strip() removes
IsSpace(c) == c \in {" ", "\t", "\n", "\r"}

RECURSIVE LStrip(_)
LStrip(text) ==
    IF text # <<>> /\ IsSpace(Head(text)) THEN LStrip(Tail(text)) ELSE text

RECURSIVE RStrip(_)
RStrip(text) ==
    IF text # <<>> /\ IsSpace(text[Len(text)])
    THEN RStrip(SubSeq(text, 1, Len(text) - 1))
    ELSE text

\* str.strip()
Strip(text) == RStrip(LStrip(text))

\* str.count(k) from position i on: occurrences found left to right, the
\* search resuming after the end of each occurrence
RECURSIVE CountFrom(_, _, _)
CountFrom(text, k, i) ==
    IF i + Len(k) - 1 > Len(text) THEN 0
    ELSE IF SubSeq(text, i, i + Len(k) - 1) = k
         THEN 1 + CountFrom(text, k, i + Len(k))
         ELSE CountFrom(text, k, i + 1)

\* text.count(k)
StrCount(text, k) == CountFrom(text, k, 1)

RECURSIVE SumSeq(_)
SumSeq(s) == IF s = <<>> THEN 0 ELSE Head(s) + SumSeq(Tail(s))

RECURSIVE Flatten(_)
Flatten(ss) == IF ss = <<>> THEN <<>> ELSE Head(ss) \o Flatten(Tail(ss))

\* sep.join(parts)
RECURSIVE Join(_, _)
Join(sep, parts) ==
    IF parts = <<>> THEN <<>>
    ELSE IF Len(parts) = 1 THEN parts[1]
    ELSE parts[1] \o sep \o Join(sep, Tail(parts))

\* round(x, 2) of a value in units of 1/10000: the nearest hundredth.  A
\* value of the classifier is never halfway between two hundredths.
Round2(x) == ((x + 50) \div 100) * 100

(***************************************************************************)
(* Exceptions.  pytesseract declares class TesseractError(RuntimeError)    *)
(* and raises a plain RuntimeError on a timeout; an except clause matches  *)
(* by isinstance, the first matching clause of a try statement wins.       *)
(***************************************************************************)
Mro(e) ==
    CASE e = "TesseractError" -> {"TesseractError", "RuntimeError", "Exception"}
      [] e = "RuntimeError"   -> {"RuntimeError", "Exception"}
      [] e = "OSError"        -> {"OSError", "Exception"}
      [] e = "ValueError"     -> {"ValueError", "Exception"}
      [] e = "BadRequest"     -> {"BadRequest", "HTTPException", "Exception"}
      [] OTHER                -> {e}

IsInstance(e, cls) == cls \in Mro(e)

\* what a call into a library can do: return, or raise one of these
OcrExcs == {"RuntimeError", "TesseractError", "ValueError"}

Ok(v) == [kind |-> "ok", value |-> v]
Raise(e) == [kind |-> "raise", exc |-> e]

(***************************************************************************)
(* classify_by_content                                                     *)
(***************************************************************************)
\* the rule set, in insertion order
rules == <<
    [doc_type |-> "resume", keywords |-> <<<<"e","d","u","c","a","t","i","o","n">>, <<"s","k","i","l","l","s">>,
        <<"w","o","r","k"," ","e","x","p","e","r","i","e","n","c","e">>, <<"o","b","j","e","c","t","i","v","e">>, <<"p","e","r","s","o","n","a","l"," ","d","a","t","a">>>>],
    [doc_type |-> "birth_cert", keywords |-> <<<<"c","e","r","t","i","f","i","c","a","t","e"," ","o","f"," ","l","i","v","e"," ","b","i","r","t","h">>,
        <<"d","a","t","e"," ","o","f"," ","b","i","r","t","h">>, <<"p","l","a","c","e"," ","o","f"," ","b","i","r","t","h">>>>],
    [doc_type |-> "tin", keywords |-> <<<<"t","i","n">>,
        <<"b","u","r","e","a","u"," ","o","f"," ","i","n","t","e","r","n","a","l"," ","r","e","v","e","n","u","e">>, <<"t","a","x"," ","i","d","e","n","t","i","f","i","c","a","t","i","o","n"," ","n","u","m","b","e","r">>>>],
    [doc_type |-> "sss", keywords |-> <<<<"s","s","s"," ","n","u","m","b","e","r">>,
        <<"s","o","c","i","a","l"," ","s","e","c","u","r","i","t","y"," ","s","y","s","t","e","m">>>>],
    [doc_type |-> "philhealth", keywords |-> <<<<"p","h","i","l","h","e","a","l","t","h">>,
        <<"i","n","s","u","r","a","n","c","e"," ","c","o","r","p","o","r","a","t","i","o","n">>>>],
    [doc_type |-> "pagibig", keywords |-> <<<<"p","a","g","-","i","b","i","g">>, <<"h","d","m","f">>>>],
    [doc_type |-> "contract", keywords |-> <<<<"a","g","r","e","e","m","e","n","t">>,
        <<"t","e","r","m","s"," ","a","n","d"," ","c","o","n","d","i","t","i","o","n","s">>, <<"s","h","a","l","l">>>>],
    [doc_type |-> "medical_clearance", keywords |-> <<<<"m","e","d","i","c","a","l"," ","c","l","e","a","r","a","n","c","e">>,
        <<"f","i","t"," ","t","o"," ","w","o","r","k">>>>],
    [doc_type |-> "memo", keywords |-> <<<<"m","e","m","o","r","a","n","d","u","m">>, <<"s","u","b","j","e","c","t",":">>>>],
    [doc_type |-> "incident_report", keywords |-> <<<<"i","n","c","i","d","e","n","t">>,
        <<"i","n","c","i","d","e","n","t"," ","o","c","c","u","r","r","e","d">>>>],
    [doc_type |-> "disciplinary_action", keywords |-> <<<<"d","i","s","c","i","p","l","i","n","a","r","y"," ","a","c","t","i","o","n">>,
        <<"v","i","o","l","a","t","i","o","n">>>>],
    [doc_type |-> "commendation", keywords |-> <<<<"c","o","m","m","e","n","d","a","t","i","o","n">>,
        <<"o","u","t","s","t","a","n","d","i","n","g"," ","p","e","r","f","o","r","m","a","n","c","e">>>>],
    [doc_type |-> "exit_letter", keywords |-> <<<<"r","e","s","i","g","n","a","t","i","o","n">>,
        <<"l","a","s","t"," ","w","o","r","k","i","n","g"," ","d","a","y">>>>],
    [doc_type |-> "interview", keywords |-> <<<<"e","x","i","t"," ","i","n","t","e","r","v","i","e","w">>>>],
    [doc_type |-> "clearance", keywords |-> <<<<"c","l","e","a","r","a","n","c","e"," ","f","o","r","m">>,
        <<"n","o"," ","p","e","n","d","i","n","g"," ","a","c","c","o","u","n","t","a","b","i","l","i","t","y">>>>]
>>

\* sum(text.count(k) for k in keywords)
KeywordSum(text, keywords) ==
    SumSeq([j \in 1..Len(keywords) |-> StrCount(text, keywords[j])])

\* scores, a dict in the insertion order of rules
Scores(text) == [i \in 1..Len(rules) |-> KeywordSum(text, rules[i].keywords)]

\* max(scores, key=scores.get) over the first n keys: a later key replaces
\* the best one, b, only when its score is greater.  (b is bound by a set
\* constructor so that it is computed once per key.)
RECURSIVE MaxKey(_, _)
MaxKey(scores, n) ==
    IF n = 1 THEN 1
    ELSE CHOOSE m \in {IF scores[n] > scores[b] THEN n ELSE b :
                            b \in {MaxKey(scores, n - 1)}} : TRUE

\* a later key replaces the best one on an equal score too
RECURSIVE MaxKeyLast(_, _)
MaxKeyLast(scores, n) ==
    IF n = 1 THEN 1
    ELSE CHOOSE m \in {IF scores[n] >= scores[b] THEN n ELSE b :
                            b \in {MaxKeyLast(scores, n - 1)}} : TRUE

LastBestMatch(scores) == MaxKeyLast(scores, Len(scores))

\* best_match = max(scores, key=scores.get)
BestMatch(scores) == MaxKey(scores, Len(scores))

\* the linear mapping without its cap
UncappedConfidence(score) == 6000 + score * 500

\* min(0.95, 0.6 + scores[best_match] * 0.05)
Confidence(score) == Min(9500, 6000 + score * 500)

classify_by_content(text) ==
    LET scores == Scores(text)
        best_match == BestMatch(scores)
    IN IF scores[best_match] = 0
       THEN [doc_type |-> "others", confidence |-> 5500]
       ELSE [doc_type |-> rules[best_match].doc_type,
             confidence |-> Confidence(scores[best_match])]

(***************************************************************************)
(* OCR helpers and check_image_readability.  A call into Pillow or         *)
(* pytesseract is given by its outcome: "ok", or the name of the exception *)
(* it raises.  A file's content is what the readers recover from it:       *)
(* units, the page or paragraph texts in order (an empty unit is a page    *)
(* whose extract_text() returns None or ""), and conf, the "conf" column   *)
(* image_to_data reports for it.                                           *)
(***************************************************************************)
\* the character stream of a file: what read() and full-text OCR recover
BodyText(content) == Flatten(content.units)

\* one entry of data["conf"]: float(conf) succeeds or raises
Num(v) == [parses |-> TRUE, value |-> v]
Junk == [parses |-> FALSE, value |-> 0]

\* safe_ocr_string: RuntimeError and TesseractError become ""
safe_ocr_string(ocr, recognised) ==
    IF ocr = "ok" THEN Ok(recognised)
    ELSE IF IsInstance(ocr, "RuntimeError") THEN Ok(<<>>)
    ELSE IF IsInstance(ocr, "TesseractError") THEN Ok(<<>>)
    ELSE Raise(ocr)

\* the loop of lines 91-98: the confidences that parse and are >= 0
Confidences(conf) ==
    LET kept == SelectSeq(conf, LAMBDA c : c.parses /\ c.value >= 0)
    IN [i \in 1..Len(kept) |-> kept[i].value]

\* round(x / 100, 2) for x = q + 0.5 goes up exactly for these q: the double
\* nearest to (q + 0.5) / 100 lies above the decimal tie for them, below it
\* for the others (12.5, 37.5, 62.5, 87.5 are exact and go to the even side)
HalfUp == {0, 2, 3, 5, 6, 8, 9, 11, 13, 16, 19, 22, 25, 26, 27, 31, 32, 33,
           37, 38, 39, 40, 44, 45, 46, 50, 51, 52, 53, 54, 55, 63, 64, 65,
           66, 67, 68, 75, 76, 77, 78, 79, 80, 87, 88, 89, 90, 91, 92, 93}

\* avg_conf = sum / len if confidences else 0; round(avg_conf / 100, 2)
NormalizedConf(confidences) ==
    IF confidences = <<>> THEN 0
    ELSE LET s == SumSeq(confidences)
             n == Len(confidences)
             q == s \div n
             r == s % n
         IN (IF 2 * r > n \/ (2 * r = n /\ q \in HalfUp) THEN q + 1 ELSE q) * 100

\* len("".join(ch for ch in text if ch.isalnum()))
TextLength(text) == Len(SelectSeq(text, IsAlnum))

Report(readable, conf, len, reason) ==
    [readable |-> readable, ocr_confidence |-> conf, text_length |-> len,
     quality_reason |-> reason]

\* tests the text length before the confidence
DecideLengthFirst(normalized_conf, text_length) ==
    IF text_length < 25
    THEN Report(FALSE, normalized_conf, text_length, "too_little_text")
    ELSE IF normalized_conf < 4500
    THEN Report(FALSE, normalized_conf, text_length, "low_ocr_confidence")
    ELSE Report(TRUE, normalized_conf, text_length, "ok")

\* lines 106-121
Decide(normalized_conf, text_length) ==
    IF normalized_conf < 4500
    THEN Report(FALSE, normalized_conf, text_length, "low_ocr_confidence")
    ELSE IF text_length < 25
    THEN Report(FALSE, normalized_conf, text_length, "too_little_text")
    ELSE Report(TRUE, normalized_conf, text_length, "ok")

\* the except clauses of lines 76-89, tried in order; "" when none matches
DataHandler(e) ==
    IF IsInstance(e, "RuntimeError") THEN "ocr_timeout"
    ELSE IF IsInstance(e, "TesseractError") THEN "tesseract_error"
    ELSE ""

\* check_image_readability(file_path), for the content at file_path and the
\* outcomes env.prep of prep_image_for_ocr, env.data of image_to_data and
\* env.ocr of image_to_string
check_image_readability(content, env) ==
    IF env.prep # "ok"
    THEN Report(FALSE, 0, 0, "ocr_processing_error")
    ELSE IF env.data # "ok"
    THEN IF DataHandler(env.data) # ""
         THEN Report(FALSE, 0, 0, DataHandler(env.data))
         ELSE Report(FALSE, 0, 0, "ocr_processing_error")
    ELSE LET normalized_conf == NormalizedConf(Confidences(content.conf))
             got == safe_ocr_string(env.ocr, BodyText(content))
         IN IF got.kind = "raise"
            THEN Report(FALSE, 0, 0, "ocr_processing_error")
            ELSE Decide(normalized_conf, TextLength(got.value))

(***************************************************************************)
(* extract_text                                                            *)
(***************************************************************************)
ImageExts == {<<".","j","p","g">>, <<".","j","p","e","g">>, <<".","p","n","g">>}

\* the loop of lines 143-144 from page i on: text += page.extract_text() or ""
\* until the pages end or the read of page failAt raises
RECURSIVE PdfLoop(_, _, _, _)
PdfLoop(pages, i, failAt, text) ==
    IF i > Len(pages) \/ i = failAt THEN text
    ELSE PdfLoop(pages, i + 1, failAt, text \o pages[i])

\* the value of the local text when the try statement of lines 138-159 is
\* left, by its end or through the except clause.  env.open is the outcome
\* of opening the file with the reader of the format, env.failAt the page
\* whose extract_text() raises (0: none), env.ocr that of image_to_string
ExtractedRaw(content, ext, env) ==
    CASE ext = <<".","p","d","f">> ->
            IF env.open # "ok" THEN <<>>
            ELSE PdfLoop(content.units, 1, env.failAt, <<>>)
      [] ext = <<".","d","o","c","x">> ->
            IF env.open # "ok" THEN <<>>
            ELSE Join(<<" ">>, content.units)
      [] ext \in ImageExts ->
            IF env.open # "ok" THEN <<>>
            ELSE LET got == safe_ocr_string(env.ocr, BodyText(content))
                 IN IF got.kind = "raise" THEN <<>> ELSE got.value
      [] ext = <<".","t","x","t">> ->
            IF env.open # "ok" THEN <<>> ELSE BodyText(content)
      [] OTHER -> <<>>

\* return (text or "").lower()
extract_text(content, ext, env) == Lower(ExtractedRaw(content, ext, env))

(***************************************************************************)
(* os.path.splitext(filename)[1]: from the last dot on, unless that dot    *)
(* leads the name (only dots before it) or the name has no dot.            *)
(***************************************************************************)
LastDot(name) ==
    IF \E i \in 1..Len(name) : name[i] = "."
    THEN CHOOSE i \in 1..Len(name) :
            name[i] = "." /\ \A j \in (i + 1)..Len(name) : name[j] # "."
    ELSE 0

SplitExt(name) ==
    LET d == LastDot(name)
    IN IF d = 0 \/ \A j \in 1..d : name[j] = "." THEN <<>>
       ELSE SubSeq(name, d, Len(name))

(***************************************************************************)
(* The classify endpoint.  Each request runs the handler of lines 203-252  *)
(* step by step; requests share only the file system of the temporary      *)
(* directory.                                                              *)
(***************************************************************************)
Reqs == {"r1", "r2"}
Paths == {"tmp1", "tmp2"}

VARIABLES
    pc,                \* where each request is in classify
    upload,            \* the request's "file" form field
    ext,               \* the local ext
    temp_name,         \* temp.name, once the temporary file is created
    temp_path,         \* the local temp_path
    readability_data,  \* the local readability_data
    text,              \* the local text
    response,          \* the responses classify returned for the request
    raised,            \* the exception classify let through to Flask, or ""
    calls,             \* the calls classify made so far, in order
    env,               \* the outcomes of the calls into the libraries and the OS
    fs                 \* the temporary directory: path -> file

vars == <<pc, upload, ext, temp_name, temp_path, readability_data, text,
          response, raised, calls, env, fs>>

EmptyContent == [units |-> <<>>, conf |-> <<>>]
NoFile == [exists |-> FALSE, data |-> EmptyContent]
NoUpload == [present |-> FALSE, filename |-> <<>>, content |-> EmptyContent]
Upload(name, content) == [present |-> TRUE, filename |-> name, content |-> content]

NoGateEnv == [prep |-> "none", data |-> "none", ocr |-> "none"]
NoExtractEnv == [open |-> "none", failAt |-> 0, ocr |-> "none"]
NoEnv == [get |-> "none", create |-> "none", save |-> "none",
          gate |-> NoGateEnv, extract |-> NoExtractEnv, remove |-> "none"]

\* lines 215-220
NotImage == Report(TRUE, None, None, "not_image")

Init ==
    /\ pc = [r \in Reqs |-> "idle"]
    /\ upload = [r \in Reqs |-> NoUpload]
    /\ ext = [r \in Reqs |-> <<>>]
    /\ temp_name = [r \in Reqs |-> ""]
    /\ temp_path = [r \in Reqs |-> ""]
    /\ readability_data = [r \in Reqs |-> NotImage]
    /\ text = [r \in Reqs |-> <<>>]
    /\ response = [r \in Reqs |-> <<>>]
    /\ raised = [r \in Reqs |-> ""]
    /\ calls = [r \in Reqs |-> <<>>]
    /\ env = [r \in Reqs |-> NoEnv]
    /\ fs = [p \in Paths |-> NoFile]

\* any name, taken or not
AnyPaths(files) == Paths

\* the names NamedTemporaryFile may give the new file: it creates the file
\* exclusively, so never a name that exists
FreshPaths(files) == {p \in Paths : ~files[p].exists}

\* except OSError
CaughtOSErrorOnly(e) == IsInstance(e, "OSError")

\* except Exception (line 247)
CaughtByClassify(e) == IsInstance(e, "Exception")

\* lines 248-252
ServerException(e) ==
    [status |-> 500, error |-> "server_exception", detail |-> e,
     hint |-> "Check file type, OCR libs, or PDF parsing."]

\* reports "others" for an image the gate found unreadable
MergeGated(doc_type, confidence, report) ==
    [status |-> 200,
     document_type |-> IF report.readable THEN doc_type ELSE "others",
     confidence |-> IF report.readable THEN confidence ELSE 5000,
     readable |-> report.readable, ocr_confidence |-> report.ocr_confidence,
     text_length |-> report.text_length,
     quality_reason |-> report.quality_reason]

\* {"document_type": ..., "confidence": ..., **readability_data}, 200
Merge(doc_type, confidence, report) ==
    [status |-> 200, document_type |-> doc_type, confidence |-> confidence,
     readable |-> report.readable, ocr_confidence |-> report.ocr_confidence,
     text_length |-> report.text_length,
     quality_reason |-> report.quality_reason]

\* not text
IsEmpty(t) == t = <<>>

\* not text.strip()
IsBlank(t) == Strip(t) = <<>>

\* an exception e raised inside the try statement of lines 204-252
Throw(r, e) ==
    /\ pc' = [pc EXCEPT ![r] = "done"]
    /\ IF CaughtByClassify(e)
       THEN /\ response' = [response EXCEPT ![r] = Append(@, ServerException(e))]
            /\ UNCHANGED raised
       ELSE /\ raised' = [raised EXCEPT ![r] = e]
            /\ UNCHANGED response

\* a client posts to /classify
Request(r, Files) ==
    /\ pc[r] = "idle"
    /\ \E f \in Files :
        upload' = [upload EXCEPT ![r] = f]
    /\ pc' = [pc EXCEPT ![r] = "start"]
    /\ UNCHANGED <<ext, temp_name, temp_path, readability_data, text, response,
                   raised, calls, env, fs>>

\* lines 205-209: a FileStorage with an empty filename is false
GetFile(r) ==
    /\ pc[r] = "start"
    /\ \E o \in {"ok", "BadRequest"} :
        /\ env' = [env EXCEPT ![r].get = o]
        /\ IF o # "ok"
           THEN Throw(r, o) /\ UNCHANGED ext
           ELSE IF ~upload[r].present \/ upload[r].filename = <<>>
           THEN /\ response' = [response EXCEPT ![r] =
                        Append(@, [status |-> 400, error |-> "No file"])]
                /\ pc' = [pc EXCEPT ![r] = "done"]
                /\ UNCHANGED <<ext, raised>>
           ELSE /\ ext' = [ext EXCEPT ![r] = Lower(SplitExt(upload[r].filename))]
                /\ pc' = [pc EXCEPT ![r] = "create"]
                /\ UNCHANGED <<response, raised>>
    /\ UNCHANGED <<upload, temp_name, temp_path, readability_data, text, calls, fs>>

\* line 211: tempfile.NamedTemporaryFile(delete=False, suffix=ext)
CreateTemp(r) ==
    /\ pc[r] = "create"
    /\ \E o \in {"ok", "OSError"} :
        /\ env' = [env EXCEPT ![r].create = o]
        /\ IF o # "ok"
           THEN Throw(r, o) /\ UNCHANGED <<temp_name, calls, fs>>
           ELSE \E p \in FreshPaths(fs) :
                /\ temp_name' = [temp_name EXCEPT ![r] = p]
                /\ fs' = [fs EXCEPT ![p] = [exists |-> TRUE, data |-> EmptyContent]]
                /\ calls' = [calls EXCEPT ![r] = Append(@, "NamedTemporaryFile")]
                /\ pc' = [pc EXCEPT ![r] = "save"]
                /\ UNCHANGED <<response, raised>>
    /\ UNCHANGED <<upload, ext, temp_path, readability_data, text>>

\* lines 212-213: file.save(temp.name); temp_path = temp.name
Save(r) ==
    /\ pc[r] = "save"
    /\ \E o \in {"ok", "OSError"} :
        /\ env' = [env EXCEPT ![r].save = o]
        /\ IF o # "ok"
           THEN Throw(r, o) /\ UNCHANGED <<temp_path, fs>>
           ELSE /\ fs' = [fs EXCEPT ![temp_name[r]] =
                        [exists |-> TRUE, data |-> upload[r].content]]
                /\ temp_path' = [temp_path EXCEPT ![r] = temp_name[r]]
                /\ pc' = [pc EXCEPT ![r] = "readability"]
                /\ UNCHANGED <<response, raised>>
    /\ UNCHANGED <<upload, ext, temp_name, readability_data, text, calls>>

\* the outcomes of the three calls of check_image_readability
GateEnvs ==
    {[prep |-> "OSError", data |-> "none", ocr |-> "none"]}
    \cup {[prep |-> "ok", data |-> d, ocr |-> "none"] : d \in OcrExcs}
    \cup {[prep |-> "ok", data |-> "ok", ocr |-> o] : o \in {"ok"} \cup OcrExcs}

\* Image.open of a path that holds no file raises
GateEnvAt(file, e) == IF file.exists THEN e ELSE [e EXCEPT !.prep = "OSError"]

\* lines 215-223
Readability(r) ==
    /\ pc[r] = "readability"
    /\ IF ext[r] \in ImageExts
       THEN \E e \in GateEnvs :
            LET file == fs[temp_path[r]]
            IN /\ readability_data' = [readability_data EXCEPT ![r] =
                        check_image_readability(file.data, GateEnvAt(file, e))]
               /\ env' = [env EXCEPT ![r].gate = e]
               /\ calls' = [calls EXCEPT ![r] = Append(@, "check_image_readability")]
       ELSE /\ readability_data' = [readability_data EXCEPT ![r] = NotImage]
            /\ UNCHANGED <<env, calls>>
    /\ pc' = [pc EXCEPT ![r] = "extract"]
    /\ UNCHANGED <<upload, ext, temp_name, temp_path, text, response, raised, fs>>

\* the outcomes of the calls extract_text makes for a format
ExtractEnvs(e, content) ==
    IF e = <<".","p","d","f">>
    THEN {[open |-> "OSError", failAt |-> 0, ocr |-> "none"]}
         \cup {[open |-> "ok", failAt |-> k, ocr |-> "none"] :
                    k \in 0..Len(content.units)}
    ELSE IF e \in ImageExts
    THEN {[open |-> "OSError", failAt |-> 0, ocr |-> "none"]}
         \cup {[open |-> "ok", failAt |-> 0, ocr |-> o] : o \in {"ok"} \cup OcrExcs}
    ELSE IF e \in {<<".","d","o","c","x">>, <<".","t","x","t">>}
    THEN {[open |-> o, failAt |-> 0, ocr |-> "none"] : o \in {"ok", "OSError"}}
    ELSE {NoExtractEnv}

\* opening a path that holds no file raises
ExtractEnvAt(file, e) ==
    IF file.exists \/ e.open = "none" THEN e ELSE [e EXCEPT !.open = "OSError"]

\* line 225
Extract(r) ==
    /\ pc[r] = "extract"
    /\ LET file == fs[temp_path[r]]
       IN \E e \in ExtractEnvs(ext[r], file.data) :
            /\ text' = [text EXCEPT ![r] =
                    extract_text(file.data, ext[r], ExtractEnvAt(file, e))]
            /\ env' = [env EXCEPT ![r].extract = e]
    /\ calls' = [calls EXCEPT ![r] = Append(@, "extract_text")]
    /\ pc' = [pc EXCEPT ![r] = "remove"]
    /\ UNCHANGED <<upload, ext, temp_name, temp_path, readability_data, response,
                   raised, fs>>

\* lines 227-230: os.remove(temp_path), whatever it raises passed over
Remove(r) ==
    /\ pc[r] = "remove"
    /\ \E o \in {"ok", "OSError"} :
        /\ env' = [env EXCEPT ![r].remove = o]
        /\ IF o = "ok" /\ fs[temp_path[r]].exists
           THEN fs' = [fs EXCEPT ![temp_path[r]] = NoFile]
           ELSE UNCHANGED fs
    /\ calls' = [calls EXCEPT ![r] = Append(@, "os.remove")]
    /\ pc' = [pc EXCEPT ![r] = "respond"]
    /\ UNCHANGED <<upload, ext, temp_name, temp_path, readability_data, text,
                   response, raised>>

\* lines 232-245: the value classify returns for a text and a quality report
Reply(t, report) ==
    IF IsBlank(t)
    THEN Merge("others", 5000, report)
    ELSE LET got == classify_by_content(t)
         IN Merge(got.doc_type, Round2(got.confidence), report)

\* lines 232-245
Respond(r) ==
    /\ pc[r] = "respond"
    /\ response' = [response EXCEPT ![r] =
            Append(@, Reply(text[r], readability_data[r]))]
    /\ calls' = [calls EXCEPT ![r] =
            IF IsBlank(text[r]) THEN @ ELSE Append(@, "classify_by_content")]
    /\ pc' = [pc EXCEPT ![r] = "done"]
    /\ UNCHANGED <<upload, ext, temp_name, temp_path, readability_data, text,
                   raised, env, fs>>

\* one step of the handler for request r
Handle(r) ==
    \/ GetFile(r)
    \/ CreateTemp(r)
    \/ Save(r)
    \/ Readability(r)
    \/ Extract(r)
    \/ Remove(r)
    \/ Respond(r)

(***************************************************************************)
(* The uploads the clients send, and the specifications.                   *)
(***************************************************************************)
RECURSIVE Rep(_, _)
Rep(s, n) == IF n = 0 THEN <<>> ELSE s \o Rep(s, n - 1)

Content(units, conf) == [units |-> units, conf |-> conf]

\* an empty file; three pages, the second without a text layer; blank pages;
\* a resume in mixed case; a page of 27 letters and digits
Documents == {
    EmptyContent,
    Content(<<<<"T","I","N"," ","s","h","a","l","l"," ">>, <<>>, <<"t","i","n">>>>, <<Num(90)>>),
    Content(<<<<" ","\n">>, <<"\t">>>>, <<Num(30)>>),
    Content(<<<<"E","d","u","c","a","t","i","o","n"," ","S","k","i","l","l","s">>, <<"x">>>>, <<Num(96), Num(-1)>>),
    Content(<<Rep(<<"t","i","n"," ">>, 9)>>, <<Num(44), Num(45)>>)
}

Filenames == {<<"a",".","p","d","f">>, <<"A",".","P","D","F">>, <<"a",".","d","o","c","x">>, <<"a",".","j","p","e","g">>, <<"b",".","p","n","g">>, <<"a",".","t","x","t">>,
              <<"a",".","x","y","z">>, <<"a">>, <<".","t","x","t">>, <<>>}

PipelineFiles ==
    {NoUpload} \cup {Upload(n, d) : n \in Filenames, d \in Documents}

\* the entries of data["conf"]: unparsable, the engine's -1, and percentages
ConfValues == {Junk, Num(-1), Num(44), Num(45), Num(100)}

ConfSeqs == UNION {[1..n -> ConfValues] : n \in 0..MaxTokens}

\* nothing; 24 letters in 36 characters; 25 letters and digits
GateTexts == {<<>>, Rep(<<"a","b"," ">>, 12), Rep(<<"a","b"," ">>, 12) \o <<"7">>}

GateFiles ==
    {NoUpload} \cup {Upload(<<"a",".","p","n","g">>, Content(<<t>>, c)) :
                        t \in GateTexts, c \in ConfSeqs}

Words == {<<"t","i","n"," ">>, <<"T","i","n">>, <<"s","h","a","l","l"," ">>, <<"s","k","i","l","l","s">>, <<"s","k","i","l","l">>, <<"h","d","m","f">>,
          <<"i","n","c","i","d","e","n","t"," ","o","c","c","u","r","r","e","d">>, <<"x">>, <<" ">>}

ClassifierTexts ==
    {Rep(a, i) \o Rep(b, j) : a \in Words, b \in Words, i \in 0..MaxRep, j \in 0..1}

ClassifierFiles ==
    {NoUpload} \cup {Upload(<<"a",".","t","x","t">>, Content(<<t>>, <<>>)) : t \in ClassifierTexts}

ConcFiles == {
    Upload(<<"a",".","p","n","g">>, Content(<<<<"T","I","N"," ","s","h","a","l","l"," ">>, <<"t","i","n">>>>, <<Num(90)>>)),
    Upload(<<"b",".","t","x","t">>, Content(<<<<"E","d","u","c","a","t","i","o","n"," ","S","k","i","l","l","s">>>>, <<>>)),
    Upload(<<>>, EmptyContent)
}

One == {"r1"}

\* one request, every format
Next == \E r \in One : Request(r, PipelineFiles) \/ Handle(r)
Spec == Init /\ [][Next]_vars

\* one request, an image, every outcome of the OCR calls
NextGate == \E r \in One : Request(r, GateFiles) \/ Handle(r)
SpecGate == Init /\ [][NextGate]_vars

\* one request, a plain text, the texts of the classifier
NextClassifier == \E r \in One : Request(r, ClassifierFiles) \/ Handle(r)
SpecClassifier == Init /\ [][NextClassifier]_vars

\* two requests served concurrently
NextConc == \E r \in Reqs : Request(r, ConcFiles) \/ Handle(r)
SpecConc == Init /\ [][NextConc]_vars

(***************************************************************************)
(* Properties.                                                             *)
(***************************************************************************)
Called(r, f) == \E i \in 1..Len(calls[r]) : calls[r][i] = f

TimesCalled(r, f) == Cardinality({i \in 1..Len(calls[r]) : calls[r][i] = f})

Blank(t) == \A i \in 1..Len(t) : IsSpace(t[i])

RECURSIVE SumOver(_, _)
SumOver(f, S) ==
    IF S = {} THEN 0
    ELSE LET x == CHOOSE y \in S : TRUE IN f[x] + SumOver(f, S \ {x})

\* the most occurrences of k in t that can be chosen without two overlapping
Occurrences(t, k) == {i \in 1..(Len(t) - Len(k) + 1) : SubSeq(t, i, i + Len(k) - 1) = k}

Disjoint(S, k) == \A i \in S : \A j \in S : i < j => j - i >= Len(k)

NonOverlapping(t, k) ==
    LET occ == Occurrences(t, k)
    IN IF Disjoint(occ, k) THEN Cardinality(occ)
       ELSE CHOOSE n \in 0..Cardinality(occ) :
            /\ \E S \in SUBSET occ : Cardinality(S) = n /\ Disjoint(S, k)
            /\ \A S \in SUBSET occ : Disjoint(S, k) => Cardinality(S) <= n

CategoryScore(t, i) ==
    SumOver([j \in 1..Len(rules[i].keywords) |-> NonOverlapping(t, rules[i].keywords[j])],
            1..Len(rules[i].keywords))

\* C1: whenever classify has created its temporary file, it has called
\* os.remove on it exactly once by the time it returns, on every exit path.
C1_StagedFileRemovedOnce ==
    \A r \in Reqs :
        (pc[r] = "done" /\ Called(r, "NamedTemporaryFile"))
            => TimesCalled(r, "os.remove") = 1

Faulted(r) ==
    \/ env[r].get \notin {"ok", "none"}
    \/ env[r].create \notin {"ok", "none"}
    \/ env[r].save \notin {"ok", "none"}

SuccessFields ==
    {"status", "document_type", "confidence", "readable", "ocr_confidence",
     "text_length", "quality_reason"}

OneResponse(r) ==
    /\ raised[r] = ""
    /\ Len(response[r]) <= 1
    /\ pc[r] # "done" => response[r] = <<>>
    /\ pc[r] = "done" =>
        /\ Len(response[r]) = 1
        /\ LET resp == response[r][1]
           IN IF Faulted(r)
              THEN resp.status = 500 /\ resp.error = "server_exception"
              ELSE IF ~upload[r].present \/ upload[r].filename = <<>>
              THEN /\ resp = [status |-> 400, error |-> "No file"]
                   /\ calls[r] = <<>>
                   /\ temp_name[r] = ""
              ELSE /\ DOMAIN resp = SuccessFields
                   /\ resp.status = 200

\* the position of a step in the handler
Rank(p) ==
    CASE p = "idle" -> 0 [] p = "start" -> 1 [] p = "create" -> 2
      [] p = "save" -> 3 [] p = "readability" -> 4 [] p = "extract" -> 5
      [] p = "remove" -> 6 [] p = "respond" -> 7 [] p = "done" -> 8

\* C2: classify never lets an exception through, never steps back to an
\* earlier step (so it returns after at most eight steps), and has returned
\* exactly one response when it is done: {error: "No file"} with nothing
\* staged or extracted when the file is missing, error "server_exception" when
\* a step raised, and otherwise the success response with its six fields.
C2_ExactlyOneResponse ==
    /\ [](\A r \in Reqs : OneResponse(r))
    /\ [][\A r \in Reqs : pc'[r] # pc[r] => Rank(pc'[r]) > Rank(pc[r])]_vars

\* a step after staging raised and the caller got the error response
C2_Witness ==
    \E r \in Reqs :
        /\ pc[r] = "done"
        /\ env[r].save = "OSError"
        /\ Called(r, "NamedTemporaryFile")
        /\ response[r] = <<ServerException("OSError")>>

ExtractionRaised(e) ==
    \/ e.open \notin {"ok", "none"}
    \/ e.failAt > 0
    \/ e.ocr \notin {"ok", "none"}

\* C3: whenever a call made by extract_text raised, whatever the format and
\* however many pages were read before, extract_text returned the empty string.
C3_FailedExtractionIsEmpty ==
    \A r \in Reqs :
        (Called(r, "extract_text") /\ ExtractionRaised(env[r].extract))
            => text[r] = <<>>

\* C4: check_image_readability answers a failure with the fixed report: a
\* timeout of the confidence call with "ocr_timeout", an engine error of it
\* with "tesseract_error", any other exception of preprocessing, of the
\* confidence call or of full-text OCR with "ocr_processing_error".
C4_FailureReports ==
    \A r \in Reqs :
        Called(r, "check_image_readability") =>
            LET g == env[r].gate
                rep == readability_data[r]
            IN /\ g.data = "RuntimeError" => rep = Report(FALSE, 0, 0, "ocr_timeout")
               /\ g.data = "TesseractError" => rep = Report(FALSE, 0, 0, "tesseract_error")
               /\ (g.prep # "ok" \/ g.data = "ValueError" \/ g.ocr = "ValueError")
                    => rep = Report(FALSE, 0, 0, "ocr_processing_error")

\* C5: when both OCR calls complete, ocr_confidence is the hundredth nearest
\* to the mean of the confidences >= 0 divided by 100 (0 without any),
\* text_length is the number of alphanumeric characters of the OCR text, and
\* the verdict is low_ocr_confidence below 0.45, else too_little_text below 25
\* characters, else ok; readable exactly when neither test fails.
C5_ReportFromOcrOutputs ==
    \A r \in Reqs :
        (/\ Called(r, "check_image_readability")
         /\ env[r].gate.prep = "ok" /\ env[r].gate.data = "ok" /\ env[r].gate.ocr = "ok")
        => LET rep == readability_data[r]
               conf == upload[r].content.conf
               kept == {i \in 1..Len(conf) : conf[i].parses /\ conf[i].value >= 0}
               n == Cardinality(kept)
               s == SumOver([i \in 1..Len(conf) |-> conf[i].value], kept)
               ocrtext == Flatten(upload[r].content.units)
               c == rep.ocr_confidence
               len == rep.text_length
           IN /\ c % 100 = 0
              /\ IF n = 0 THEN c = 0
                 ELSE LET h == c \div 100
                          d == IF h * n >= s THEN h * n - s ELSE s - h * n
                      IN 2 * d <= n
              /\ len = Cardinality({i \in 1..Len(ocrtext) : IsAlnum(ocrtext[i])})
              /\ c < 4500 => rep.readable = FALSE /\ rep.quality_reason = "low_ocr_confidence"
              /\ (c >= 4500 /\ len < 25)
                    => rep.readable = FALSE /\ rep.quality_reason = "too_little_text"
              /\ (c >= 4500 /\ len >= 25)
                    => rep.readable = TRUE /\ rep.quality_reason = "ok"
              /\ rep.readable = TRUE <=> (c >= 4500 /\ len >= 25)

\* a mean of 44.5 gives 0.45, and with 25 alphanumeric characters "ok"
C5_Witness ==
    \E r \in Reqs :
        /\ Called(r, "check_image_readability")
        /\ env[r].gate.ocr = "ok"
        /\ upload[r].content.conf = <<Num(44), Num(45)>>
        /\ readability_data[r] = Report(TRUE, 4500, 25, "ok")

\* C6: when the extracted text is empty or whitespace only, classify does not
\* call classify_by_content and answers "others" with confidence 0.50 and the
\* request's quality report unchanged, the not_image report for a format that
\* is no image; 0.50 is never the confidence when the classifier was called.
C6_BlankTextShortCircuit ==
    \A r \in Reqs :
        (pc[r] = "done" /\ Called(r, "extract_text")) =>
            LET resp == response[r][1]
                rep == readability_data[r]
            IN /\ Blank(text[r]) =>
                    /\ ~Called(r, "classify_by_content")
                    /\ resp.document_type = "others"
                    /\ resp.confidence = 5000
                    /\ Report(resp.readable, resp.ocr_confidence, resp.text_length,
                              resp.quality_reason) = rep
                    /\ ext[r] \notin ImageExts => rep = Report(TRUE, None, None, "not_image")
               /\ Called(r, "classify_by_content") => resp.confidence # 5000

\* a text of whitespace only took the short circuit
C6_Witness ==
    \E r \in Reqs :
        /\ pc[r] = "done"
        /\ text[r] # <<>>
        /\ Blank(text[r])
        /\ response[r][1].confidence = 5000
        /\ response[r][1].quality_reason = "not_image"

Categories == 1..Len(rules)

\* C7: the document_type is the category whose score, the sum over its
\* keywords of their non-overlapping occurrences in the text, is highest, the
\* first such category in the order of the rule set; it is "others" exactly
\* when every score is 0.
C7_HighestScoreFirstWins ==
    \A r \in Reqs :
        (pc[r] = "done" /\ Called(r, "classify_by_content")) =>
            LET score == [i \in Categories |-> CategoryScore(text[r], i)]
                doc_type == response[r][1].document_type
            IN /\ doc_type = "others" <=> \A i \in Categories : score[i] = 0
               /\ doc_type # "others" =>
                    \E c \in Categories :
                        /\ rules[c].doc_type = doc_type
                        /\ \A d \in Categories : score[d] <= score[c]
                        /\ \A d \in 1..(c - 1) : score[d] < score[c]

\* "tin" and "contract" have the same, highest, score and "tin" is returned
C7_Witness ==
    \E r \in Reqs :
        /\ pc[r] = "done"
        /\ Called(r, "classify_by_content")
        /\ LET score == Scores(text[r])
           IN /\ score[3] = score[7]
              /\ score[3] >= 1
              /\ \A i \in Categories : score[i] <= score[3]
        /\ response[r][1].document_type = "tin"

\* the highest score of a text
WinningScore(t) ==
    CHOOSE w \in {Scores(t)[i] : i \in Categories} :
        \A i \in Categories : Scores(t)[i] <= w

\* C8: the confidence in the response is 0.55 when the winning score is 0 and
\* min(0.95, 0.60 + 0.05 * winning score) when it is at least 1, unchanged by
\* the rounding to two places: at least that of any smaller winning score,
\* 0.95 from 7 on, and within [0.65, 0.95] for a matched category.
C8_ConfidenceOfWinningScore ==
    \A r \in Reqs :
        (pc[r] = "done" /\ Called(r, "classify_by_content")) =>
            LET w == WinningScore(text[r])
                c == response[r][1].confidence
            IN /\ w = 0 => c = 5500
               /\ w >= 1 => /\ c = Min(9500, 6000 + 500 * w)
                            /\ c >= 6500 /\ c <= 9500
                            /\ \A v \in 1..w : Min(9500, 6000 + 500 * v) <= c
               /\ w >= 7 => c = 9500

\* a winning score above 7 is answered with 0.95
C8_Witness ==
    \E r \in Reqs :
        /\ pc[r] = "done"
        /\ Called(r, "classify_by_content")
        /\ WinningScore(text[r]) > 7
        /\ response[r][1].confidence = 9500

InFlight(r) == pc[r] \in {"save", "readability", "extract", "remove"}

\* C9: two requests with the same file and filename, for which the libraries
\* and the OS behave alike, get identical responses however their steps
\* interleave, and two requests in flight never share a staged file.
C9_SameUploadSameResponse ==
    \A r1 \in Reqs : \A r2 \in Reqs \ {r1} :
        /\ (pc[r1] = "done" /\ pc[r2] = "done"
                /\ upload[r1] = upload[r2] /\ env[r1] = env[r2])
            => response[r1] = response[r2]
        /\ (InFlight(r1) /\ InFlight(r2)) => temp_name[r1] # temp_name[r2]

\* both requests classified the same image
C9_Witness ==
    /\ \A r \in Reqs : pc[r] = "done" /\ Called(r, "classify_by_content")
    /\ upload["r1"] = upload["r2"]
    /\ env["r1"] = env["r2"]
    /\ ext["r1"] \in ImageExts
    /\ response["r1"] = response["r2"]

Index(r, f) == CHOOSE i \in 1..Len(calls[r]) : calls[r][i] = f

\* C10: for an image the gate is called before extract_text; whatever it
\* reports extract_text is called, classify_by_content is called when the text
\* is not blank, document_type and confidence are those the text alone
\* decides, and the report is in the response unchanged.
C10_GateIsAdvisory ==
    \A r \in Reqs :
        ext[r] \in ImageExts =>
            /\ Called(r, "extract_text") =>
                /\ Called(r, "check_image_readability")
                /\ Index(r, "check_image_readability") < Index(r, "extract_text")
            /\ (pc[r] = "done" /\ Called(r, "check_image_readability")) =>
                LET resp == response[r][1]
                    rep == readability_data[r]
                IN /\ Called(r, "extract_text")
                   /\ ~Blank(text[r]) => Called(r, "classify_by_content")
                   /\ resp.document_type =
                        (IF Blank(text[r]) THEN "others"
                         ELSE classify_by_content(text[r]).doc_type)
                   /\ resp.confidence =
                        (IF Blank(text[r]) THEN 5000
                         ELSE classify_by_content(text[r]).confidence)
                   /\ Report(resp.readable, resp.ocr_confidence, resp.text_length,
                             resp.quality_reason) = rep

\* an image the gate found unreadable was classified from its text
C10_Witness ==
    \E r \in Reqs :
        /\ pc[r] = "done"
        /\ ext[r] \in ImageExts
        /\ readability_data[r].readable = FALSE
        /\ readability_data[r].quality_reason = "too_little_text"
        /\ response[r][1].document_type = "tin"
        /\ response[r][1].quality_reason = "too_little_text"

=============================================================================
